---- MODULE Spec2Model ----
\* Bollinger-band signal generator and single-position backtest of
\* src/Bollinger_band.py, as a state machine: one step per loop iteration.
\*
\* Prices are integers in units of PIP_VALUE (0.0001), so the arithmetic of the
\* model is exact where the program's is IEEE double arithmetic.  Bars and
\* timestamps are identified with their 0-based row index in df (df is sorted
\* by its unique time index, lines 31-32).
EXTENDS Integers, Sequences, FiniteSets, TLC

\* ---------------------------------------------------------------- constants
INITIAL_BALANCE == 1000
STOP_LOSS_PIPS == 20
TAKE_PROFIT_PIPS == 40
\* 0.0001, the price unit of the model
PIP_VALUE == 1
\* 0.0005 = 5 price units
SPREAD == 5
\* rolling(window=20); the signal loop starts at range(20, ...)
Window == 20
SignalStart == 20
\* band multiplier of lines 42-43
BandK == 2

\* ------------------------------------------------------------------- bounds
\* number of rows after the warm-up rows whose close is drawn freely
MaxTail == 4
\* the two base price levels of the input series
Bases == {35, 45}
\* offsets of a free close from the base level
CloseOffs == {0 - 20, 0, 20}
\* distance of a bar's low below / its high above its close
LowOffs == {0, 35}
HighOffs == {0, 25}

\* initial balances a run is configured with (line 8 edited)
ConfigBalances == {INITIAL_BALANCE, 0 - INITIAL_BALANCE}
\* zero_lag_trend_level: longest close column, prices, lengths, sensitivities
MaxZLLen == 3
ZLPrices == {1, 2, 3}
ZLLengths == {1, 2, 3, 6, 9}
ZLSensitivities == {0, 1, 2}

MaxLen == Window + MaxTail

\* -------------------------------------------------------------------- state
VARIABLES
    pc,          \* position in the script
    Close,       \* df['Close'], a function on 0..len(df)-1
    Signal,      \* df['Signal']
    position,    \* signal loop flag (line 47)
    i,           \* loop index of the running loop
    row,         \* df.iloc[i] of the backtest loop (line 68)
    balance,     \* line 62
    equity,      \* line 63, a sequence
    positions,   \* line 64, the ledger, a sequence
    open_trade,  \* line 65
    opened,      \* history: number of executions of line 76
    Equity,      \* df['Equity'] (line 107)
    metrics,     \* the values computed in lines 111-123
    initial_balance,  \* the value of INITIAL_BALANCE (line 8) in this run
    \* a call of zero_lag_trend_level (src/bollinger_part2.py)
    zl_pc,            \* "idle", "call" or "returned"
    zl_df,            \* the caller's frame, a record of columns
    zl_length,        \* argument length
    zl_sensitivity,   \* argument sensitivity
    zl_ret            \* the returned frame

zlVars == <<zl_pc, zl_df, zl_length, zl_sensitivity, zl_ret>>

vars == <<pc, Close, Signal, position, i, row, balance, equity, positions,
          open_trade, opened, Equity, metrics, initial_balance, zlVars>>

\* Python's None for open_trade / row / metrics
None == [none |-> TRUE]

\* len(df)
len_df == Cardinality(DOMAIN Close)

\* ------------------------------------------------------- indicators (40-43)
RECURSIVE SumClose(_, _, _)
\* sum of Close[a..b]
SumClose(C, a, b) == IF a > b THEN 0 ELSE C[b] + SumClose(C, a, b - 1)

RECURSIVE SumSqClose(_, _, _)
\* sum of the squares of Close[a..b]
SumSqClose(C, a, b) == IF a > b THEN 0 ELSE C[b] * C[b] + SumSqClose(C, a, b - 1)

\* rolling(window=20): the value at t is NaN unless t >= window - 1
BandsAvailable(t) == t >= Window - 1

\* Window * MA[t]
MAxW(C, t) == SumClose(C, t - Window + 1, t)

\* Window * (Window - 1) * STD[t]^2  (sample variance, ddof = 1)
VARxWW1(C, t) ==
    Window * SumSqClose(C, t - Window + 1, t) - MAxW(C, t) * MAxW(C, t)

\* CloseBelowLower with the bands of the next row where there is one, as a
\* rolling window shifted by one row (shift(-1)) would give
CloseBelowLower_NextRowBands(C, t) ==
    /\ BandsAvailable(t)
    /\ LET u == IF t + 1 \in DOMAIN C THEN t + 1 ELSE t
           d == MAxW(C, u) - Window * C[t]
       IN  /\ d > 0
           /\ (Window - 1) * d * d > BandK * BandK * Window * VARxWW1(C, u)

\* close < Lower[t] where Lower = MA - 2 * STD; False when Lower is NaN.
\* MA - close > 2 STD  <=>  MA - close > 0 and (MA - close)^2 > 4 STD^2,
\* both sides multiplied by Window^2 * (Window - 1).
CloseBelowLower(C, t) ==
    /\ BandsAvailable(t)
    /\ LET d == MAxW(C, t) - Window * C[t]
       IN  /\ d > 0
           /\ (Window - 1) * d * d > BandK * BandK * Window * VARxWW1(C, t)

\* close > Upper[t] where Upper = MA + 2 * STD; False when Upper is NaN.
CloseAboveUpper(C, t) ==
    /\ BandsAvailable(t)
    /\ LET d == Window * C[t] - MAxW(C, t)
       IN  /\ d > 0
           /\ (Window - 1) * d * d > BandK * BandK * Window * VARxWW1(C, t)

\* ------------------------------------------------------------------- inputs
\* A close column of n rows: the rows before Window - 1 sit at the base level
\* b, every later row is drawn freely around it.
CloseColumn(n, b, tail) ==
    [t \in 0 .. n - 1 |-> IF t < Window - 1 THEN b ELSE b + tail[t]]

Series ==
    UNION { { CloseColumn(n, b, tail) :
                b \in Bases, tail \in [Window - 1 .. n - 1 -> CloseOffs] } :
            n \in 0 .. MaxLen }

\* df.iloc[t] with the bar's high and low drawn around its close
Row(t, ho, lo) ==
    [name |-> t, Close |-> Close[t], High |-> Close[t] + ho,
     Low |-> Close[t] - lo, Signal |-> Signal[t]]

\* ------------------------------------------------------ signals (45-59)
\* NextSignal with the `and not position` guard of line 54 dropped
NextSignal_NoFlatGuard(C, t, pos) ==
    IF CloseBelowLower(C, t) THEN "Buy"
    ELSE IF CloseAboveUpper(C, t) /\ pos THEN "Sell"
    ELSE "None"

\* the value written to df['Signal'] at row t, "None" when nothing is written
NextSignal(C, t, pos) ==
    IF CloseBelowLower(C, t) /\ ~pos THEN "Buy"
    ELSE IF CloseAboveUpper(C, t) /\ pos THEN "Sell"
    ELSE "None"

\* the flag after row t
NextPosition(sig, pos) ==
    IF sig = "Buy" THEN TRUE ELSE IF sig = "Sell" THEN FALSE ELSE pos

\* ------------------------------------------------------ backtest (61-105)
\* lines 73-76
NewTrade(r) ==
    LET entry == r.Close + SPREAD
    IN  [entry |-> entry,
         sl |-> entry - STOP_LOSS_PIPS * PIP_VALUE,
         tp |-> entry + TAKE_PROFIT_PIPS * PIP_VALUE,
         entry_time |-> r.name]

\* lines 81-89: exit_price and result; isNone models exit_price = None
ExitCheck(trade, r) ==
    IF r.Low <= trade.sl
    THEN [isNone |-> FALSE, exit_price |-> trade.sl, result |-> "Loss"]
    ELSE IF r.High >= trade.tp
    THEN [isNone |-> FALSE, exit_price |-> trade.tp, result |-> "Win"]
    ELSE [isNone |-> TRUE, exit_price |-> 0, result |-> "None"]

\* line 91: `if exit_price:` is the truth value of a float or None
Truthy(ex) == ~ex.isNone /\ ex.exit_price # 0

\* Pips measured from the close of the entry bar, leaving the spread out
Pips_FromClose(trade, ex) ==
    (ex.exit_price - (trade.entry - SPREAD)) \div PIP_VALUE

\* line 92
Pips(trade, ex) == (ex.exit_price - trade.entry) \div PIP_VALUE

\* LedgerEntry taking entry_time from the exit row
LedgerEntry_EntryAtExit(trade, ex, r, bal) ==
    [entry_time |-> r.name, exit_time |-> r.name,
     entry |-> trade.entry, exit |-> ex.exit_price, result |-> ex.result,
     pips |-> Pips(trade, ex), balance |-> bal]

\* lines 94-102; pips and balance are whole numbers, which round(., 2) keeps
LedgerEntry(trade, ex, r, bal) ==
    [entry_time |-> trade.entry_time, exit_time |-> r.name,
     entry |-> trade.entry, exit |-> ex.exit_price, result |-> ex.result,
     pips |-> Pips(trade, ex), balance |-> bal]

\* StepBar with line 103 (open_trade = None) dropped
StepBar_NoClear(ot, bal, pos, r) ==
    IF r.Signal = "Buy" /\ ot = None
    THEN [open_trade |-> NewTrade(r), balance |-> bal, positions |-> pos,
          didOpen |-> TRUE]
    ELSE IF ot # None
    THEN LET ex == ExitCheck(ot, r)
         IN  IF Truthy(ex)
             THEN [open_trade |-> ot,
                   balance |-> bal + Pips(ot, ex),
                   positions |-> Append(pos,
                       LedgerEntry(ot, ex, r, bal + Pips(ot, ex))),
                   didOpen |-> FALSE]
             ELSE [open_trade |-> ot, balance |-> bal, positions |-> pos,
                   didOpen |-> FALSE]
    ELSE [open_trade |-> ot, balance |-> bal, positions |-> pos,
          didOpen |-> FALSE]

\* StepBar where a Buy on a bar entered with a trade open replaces that trade
StepBar_BuyReopens(ot, bal, pos, r) ==
    IF r.Signal = "Buy"
    THEN [open_trade |-> NewTrade(r), balance |-> bal, positions |-> pos,
          didOpen |-> TRUE]
    ELSE IF ot # None
    THEN LET ex == ExitCheck(ot, r)
         IN  IF Truthy(ex)
             THEN [open_trade |-> None,
                   balance |-> bal + Pips(ot, ex),
                   positions |-> Append(pos,
                       LedgerEntry(ot, ex, r, bal + Pips(ot, ex))),
                   didOpen |-> FALSE]
             ELSE [open_trade |-> ot, balance |-> bal, positions |-> pos,
                   didOpen |-> FALSE]
    ELSE [open_trade |-> ot, balance |-> bal, positions |-> pos,
          didOpen |-> FALSE]

\* StepBar charging the spread to the balance when the trade is opened
StepBar_SpreadCost(ot, bal, pos, r) ==
    IF r.Signal = "Buy" /\ ot = None
    THEN [open_trade |-> NewTrade(r), balance |-> bal - SPREAD,
          positions |-> pos, didOpen |-> TRUE]
    ELSE IF ot # None
    THEN LET ex == ExitCheck(ot, r)
         IN  IF Truthy(ex)
             THEN [open_trade |-> None,
                   balance |-> bal + Pips(ot, ex),
                   positions |-> Append(pos,
                       LedgerEntry(ot, ex, r, bal + Pips(ot, ex))),
                   didOpen |-> FALSE]
             ELSE [open_trade |-> ot, balance |-> bal, positions |-> pos,
                   didOpen |-> FALSE]
    ELSE [open_trade |-> ot, balance |-> bal, positions |-> pos,
          didOpen |-> FALSE]

\* StepBar with `if open_trade:` in place of `elif open_trade:` (line 78)
StepBar_SameBarExit(ot, bal, pos, r) ==
    LET willOpen == r.Signal = "Buy" /\ ot = None
        ot1 == IF willOpen THEN NewTrade(r) ELSE ot
    IN  IF ot1 # None
        THEN LET ex == ExitCheck(ot1, r)
             IN  IF Truthy(ex)
                 THEN [open_trade |-> None,
                       balance |-> bal + Pips(ot1, ex),
                       positions |-> Append(pos,
                           LedgerEntry(ot1, ex, r, bal + Pips(ot1, ex))),
                       didOpen |-> willOpen]
                 ELSE [open_trade |-> ot1, balance |-> bal, positions |-> pos,
                       didOpen |-> willOpen]
        ELSE [open_trade |-> ot1, balance |-> bal, positions |-> pos,
              didOpen |-> willOpen]

\* StepBar where a Sell signal closes the open trade at the bar's close
StepBar_SellCloses(ot, bal, pos, r) ==
    IF r.Signal = "Buy" /\ ot = None
    THEN [open_trade |-> NewTrade(r), balance |-> bal, positions |-> pos,
          didOpen |-> TRUE]
    ELSE IF ot # None
    THEN LET chk == ExitCheck(ot, r)
             ex == IF chk.isNone /\ r.Signal = "Sell"
                   THEN [isNone |-> FALSE, exit_price |-> r.Close,
                         result |-> IF r.Close >= ot.entry THEN "Win"
                                    ELSE "Loss"]
                   ELSE chk
         IN  IF Truthy(ex)
             THEN [open_trade |-> None,
                   balance |-> bal + Pips(ot, ex),
                   positions |-> Append(pos,
                       LedgerEntry(ot, ex, r, bal + Pips(ot, ex))),
                   didOpen |-> FALSE]
             ELSE [open_trade |-> ot, balance |-> bal, positions |-> pos,
                   didOpen |-> FALSE]
    ELSE [open_trade |-> ot, balance |-> bal, positions |-> pos,
          didOpen |-> FALSE]

\* One iteration of the loop body, lines 68-103, on row r: the new values of
\* open_trade, balance and positions, and whether line 76 ran.
StepBar(ot, bal, pos, r) ==
    IF r.Signal = "Buy" /\ ot = None
    THEN [open_trade |-> NewTrade(r), balance |-> bal, positions |-> pos,
          didOpen |-> TRUE]
    ELSE IF ot # None
    THEN LET ex == ExitCheck(ot, r)
         IN  IF Truthy(ex)
             THEN [open_trade |-> None,
                   balance |-> bal + Pips(ot, ex),
                   positions |-> Append(pos,
                       LedgerEntry(ot, ex, r, bal + Pips(ot, ex))),
                   didOpen |-> FALSE]
             ELSE [open_trade |-> ot, balance |-> bal, positions |-> pos,
                   didOpen |-> FALSE]
    ELSE [open_trade |-> ot, balance |-> bal, positions |-> pos,
          didOpen |-> FALSE]

\* EquityAppend recording a point only on the bars that changed the balance
EquityAppend_OnChange(eq, bal) ==
    IF bal = eq[Len(eq)] THEN eq ELSE Append(eq, bal)

\* line 105
EquityAppend(eq, bal) == Append(eq, bal)

\* line 107: equity[:len(df)]
EquityColumn(eq, n) == SubSeq(eq, 1, IF n < Len(eq) THEN n ELSE Len(eq))

\* ------------------------------------------------------ metrics (110-123)
RECURSIVE MaxOf(_)
\* np.max of a non-empty sequence
MaxOf(s) ==
    IF Len(s) = 1 THEN s[1]
    ELSE LET m == MaxOf(Tail(s)) IN IF s[1] >= m THEN s[1] ELSE m

\* MaxDrawdown with the difference taken the other way round
MaxDrawdown_Gain(Eq) == MaxOf([k \in 1 .. Len(Eq) |-> Eq[k] - initial_balance])

\* line 116
MaxDrawdown(Eq) == MaxOf([k \in 1 .. Len(Eq) |-> initial_balance - Eq[k]])

\* line 113
CountWins(pos) == Cardinality({k \in 1 .. Len(pos) : pos[k].result = "Win"})

\* ComputeMetrics testing the price frame (`if not df.empty`) instead of the
\* ledger frame in line 111
ComputeMetrics_TestsPriceFrame(pos, Eq, bal) ==
    IF Eq # <<>>
    THEN [names |-> "Metrics",
          total_trades |-> Len(pos),
          wins |-> CountWins(pos),
          losses |-> Len(pos) - CountWins(pos),
          max_drawdown |-> MaxDrawdown(Eq),
          net_profit |-> bal - initial_balance,
          final_balance |-> bal]
    ELSE [names |-> "Note"]

\* lines 111-123
ComputeMetrics(pos, Eq, bal) ==
    IF pos # <<>>
    THEN [names |-> "Metrics",
          total_trades |-> Len(pos),
          wins |-> CountWins(pos),
          losses |-> Len(pos) - CountWins(pos),
          max_drawdown |-> MaxDrawdown(Eq),
          net_profit |-> bal - initial_balance,
          final_balance |-> bal]
    ELSE [names |-> "Note"]

\* ------------------------------------ zero_lag_trend_level (bollinger_part2)
\* Columns are sequences, row t of the source is element t + 1.  The values
\* of the float columns are kept as integers, scaled by ZLScale so that every
\* division of the recurrences is exact.
RECURSIVE Pow(_, _)
Pow(b, e) == IF e = 0 THEN 1 ELSE b * Pow(b, e - 1)

\* line 27
SmoothLength(length) == IF length \div 3 > 2 THEN length \div 3 ELSE 2

\* the common denominator of all values of a frame of n rows
ZLScale(length, n) == Pow((length + 1) * (SmoothLength(length) + 1), n)

RECURSIVE EmaAt(_, _, _)
\* lines 19-20: series.ewm(span=span, adjust=False).mean() at element t:
\* ema[0] = x[0], ema[t] = a x[t] + (1 - a) ema[t-1] with a = 2 / (span + 1)
EmaAt(x, span, t) ==
    IF t = 1 THEN x[1]
    ELSE (2 * x[t] + (span - 1) * EmaAt(x, span, t - 1)) \div (span + 1)

Ema(x, span) == [t \in 1 .. Len(x) |-> EmaAt(x, span, t)]

\* lines 22-28
Zlema(close, length, sensitivity) ==
    LET src == [t \in 1 .. Len(close) |->
                    close[t] * ZLScale(length, Len(close))]
        ema1 == Ema(src, length)
        boosted == [t \in 1 .. Len(src) |->
                        src[t] + (src[t] - ema1[t]) * sensitivity]
        zlema_raw == Ema(boosted, length)
    IN  Ema(zlema_raw, SmoothLength(length))

\* line 30: zlema > zlema.shift(1); the shifted first element is NaN
TrendUp(z) == [t \in 1 .. Len(z) |-> t > 1 /\ z[t] > z[t - 1]]

\* TrendDn as the negation of trendUp
TrendDn_NotUp(z) == [t \in 1 .. Len(z) |-> ~(t > 1 /\ z[t] > z[t - 1])]

\* line 31: zlema < zlema.shift(1)
TrendDn(z) == [t \in 1 .. Len(z) |-> t > 1 /\ z[t] < z[t - 1]]

\* lines 4-38: the returned frame and the caller's frame after the call
\* (line 33 rebinds the local name to a copy before the columns are added)
ZeroLagTrendLevel(df, length, sensitivity) ==
    LET zlema == Zlema(df.close, length, sensitivity)
    IN  [ret |-> [close |-> df.close, zlema |-> zlema,
                  trendUp |-> TrendUp(zlema), trendDn |-> TrendDn(zlema)],
         arg |-> df]


\* ------------------------------------------------------------------ actions
\* no call of zero_lag_trend_level is under way (the script makes none)
ZLIdle ==
    /\ zl_pc = "idle"
    /\ zl_df = None
    /\ zl_length = 0
    /\ zl_sensitivity = 0
    /\ zl_ret = None

\* the script before its loops, run with initial balance b
InitRun(b) ==
    /\ initial_balance = b
    /\ pc = "signals"
    /\ Close \in Series
    /\ Signal = [t \in DOMAIN Close |-> "None"]
    /\ position = FALSE
    /\ i = SignalStart
    /\ row = None
    /\ balance = b
    /\ equity = <<b>>
    /\ positions = <<>>
    /\ open_trade = None
    /\ opened = 0
    /\ Equity = None
    /\ metrics = None

Init == InitRun(INITIAL_BALANCE) /\ ZLIdle

\* SignalStep writing the signal of row i to row i - SignalStart, as an index
\* into a frame whose warm-up rows had been dropped would
SignalStep_ShiftedWrite ==
    /\ pc = "signals"
    /\ i < len_df
    /\ LET sig == NextSignal(Close, i, position)
       IN  /\ Signal' = IF sig = "None" THEN Signal
                        ELSE [Signal EXCEPT ![i - SignalStart] = sig]
           /\ position' = NextPosition(sig, position)
    /\ i' = i + 1
    /\ UNCHANGED <<pc, Close, row, balance, equity, positions, open_trade,
                   opened, Equity, metrics,
                   initial_balance, zlVars>>

\* one iteration of `for i in range(20, len(df))`, lines 49-59
SignalStep ==
    /\ pc = "signals"
    /\ i < len_df
    /\ LET sig == NextSignal(Close, i, position)
       IN  /\ Signal' = IF sig = "None" THEN Signal
                        ELSE [Signal EXCEPT ![i] = sig]
           /\ position' = NextPosition(sig, position)
    /\ i' = i + 1
    /\ UNCHANGED <<pc, Close, row, balance, equity, positions, open_trade,
                   opened, Equity, metrics,
                   initial_balance, zlVars>>

\* the signal loop is exhausted; lines 62-65 and the start of the loop of 67
SignalsDone ==
    /\ pc = "signals"
    /\ i >= len_df
    /\ pc' = "backtest"
    /\ i' = 0
    /\ balance' = initial_balance
    /\ equity' = <<initial_balance>>
    /\ positions' = <<>>
    /\ open_trade' = None
    /\ UNCHANGED <<Close, Signal, position, row, opened, Equity, metrics,
                   initial_balance, zlVars>>

\* one iteration of `for i in range(len(df))`, lines 67-105
BacktestStep ==
    /\ pc = "backtest"
    /\ i < len_df
    /\ \E ho \in HighOffs, lo \in LowOffs :
          LET r == Row(i, ho, lo)
              st == StepBar(open_trade, balance, positions, r)
          IN  /\ row' = r
              /\ open_trade' = st.open_trade
              /\ balance' = st.balance
              /\ positions' = st.positions
              /\ opened' = IF st.didOpen THEN opened + 1 ELSE opened
              /\ equity' = EquityAppend(equity, st.balance)
    /\ i' = i + 1
    /\ UNCHANGED <<pc, Close, Signal, position, Equity, metrics,
                   initial_balance, zlVars>>

\* the backtest loop is exhausted; line 107
BacktestDone ==
    /\ pc = "backtest"
    /\ i >= len_df
    /\ pc' = "metrics"
    /\ Equity' = EquityColumn(equity, len_df)
    /\ UNCHANGED <<Close, Signal, position, i, row, balance, equity,
                   positions, open_trade, opened, metrics,
                   initial_balance, zlVars>>

\* lines 111-123
Metrics ==
    /\ pc = "metrics"
    /\ pc' = "done"
    /\ metrics' = ComputeMetrics(positions, Equity, balance)
    /\ UNCHANGED <<Close, Signal, position, i, row, balance, equity,
                   positions, open_trade, opened, Equity,
                   initial_balance, zlVars>>

Next ==
    \/ SignalStep
    \/ SignalsDone
    \/ BacktestStep
    \/ BacktestDone
    \/ Metrics

Spec == Init /\ [][Next]_vars

\* a run whose configured initial balance is drawn from ConfigBalances
InitConfig == (\E b \in ConfigBalances : InitRun(b)) /\ ZLIdle

SpecConfig == InitConfig /\ [][Next]_vars

\* the script is not running
RunIdle ==
    /\ pc = "idle"
    /\ Close = <<>>
    /\ Signal = <<>>
    /\ position = FALSE
    /\ i = 0
    /\ row = None
    /\ balance = INITIAL_BALANCE
    /\ equity = <<>>
    /\ positions = <<>>
    /\ open_trade = None
    /\ opened = 0
    /\ Equity = None
    /\ metrics = None
    /\ initial_balance = INITIAL_BALANCE

\* close columns of up to MaxZLLen rows
ZLFrames ==
    UNION { { [close |-> c] : c \in [1 .. n -> ZLPrices] } : n \in 0 .. MaxZLLen }

\* a caller about to call zero_lag_trend_level(df, length, sensitivity)
InitZL ==
    /\ RunIdle
    /\ zl_pc = "call"
    /\ zl_df \in ZLFrames
    /\ zl_length \in ZLLengths
    /\ zl_sensitivity \in ZLSensitivities
    /\ zl_ret = None

\* the call and its return
ZLCall ==
    /\ zl_pc = "call"
    /\ zl_pc' = "returned"
    /\ LET out == ZeroLagTrendLevel(zl_df, zl_length, zl_sensitivity)
       IN  /\ zl_ret' = out.ret
           /\ zl_df' = out.arg
    /\ UNCHANGED <<pc, Close, Signal, position, i, row, balance, equity,
                   positions, open_trade, opened, Equity, metrics,
                   initial_balance, zl_length, zl_sensitivity>>

NextZL == ZLCall

SpecZL == InitZL /\ [][NextZL]_vars

\* ------------------------------------------------------------ vocabulary
InBacktest == pc \in {"backtest", "metrics", "done"}

\* a step of the backtest loop: row' is the bar it processed
BarStep == pc = "backtest" /\ i' = i + 1

RECURSIVE Emitted(_, _)
\* the non-None entries of df['Signal'] on rows 0 .. n - 1, in row order
Emitted(Sig, n) ==
    IF n = 0 THEN <<>>
    ELSE IF Sig[n - 1] = "None" THEN Emitted(Sig, n - 1)
    ELSE Append(Emitted(Sig, n - 1), Sig[n - 1])

\* number of rows 0 .. n - 1 carrying Buy
BuyCount(Sig, n) == Cardinality({t \in 0 .. n - 1 : Sig[t] = "Buy"})

NumOpen == IF open_trade = None THEN 0 ELSE 1

\* ------------------------------------------------------------------ claims
\* C1: the emitted (non-None) signals, in row order, alternate Buy, Sell,
\* Buy, ...: the k-th emitted signal is Buy for odd k and Sell for even k, so
\* no two consecutive ones are equal and the first one is Buy.
C1_SignalsAlternate ==
    LET e == Emitted(Signal, len_df)
    IN  \A k \in 1 .. Len(e) : e[k] = IF k % 2 = 1 THEN "Buy" ELSE "Sell"

C1_Witness ==
    /\ pc = "backtest"
    /\ Len(Emitted(Signal, len_df)) >= 3

\* C2: during the backtest at most one trade is open (open_trade is None or
\* one trade), the ledger holds one entry per trade opened and no longer
\* open, and so at the end it is short of the trades opened by at most one.
C2_LedgerCount ==
    InBacktest =>
        /\ open_trade = None \/ open_trade.entry_time \in 0 .. len_df - 1
        /\ Len(positions) = opened - NumOpen
        /\ opened - Len(positions) \in {0, 1}

C2_Witness ==
    /\ pc = "done"
    /\ Len(positions) >= 1
    /\ open_trade # None
    /\ opened = Len(positions) + 1

\* the ledger entry appended by the step, when there is one
Appended == positions'[Len(positions')]

HasExit == Len(positions') = Len(positions) + 1

\* the bar row' touches the stop / the target of trade ot
StopTouched(ot, r) == r.Low <= ot.sl
TargetTouched(ot, r) == r.High >= ot.tp

\* the step closed the trade it entered the bar with, at price px as res
ClosedAt(px, res) ==
    /\ HasExit
    /\ positions' = Append(positions, Appended)
    /\ Appended.result = res
    /\ Appended.exit = px
    /\ Appended.exit_time = row'.name
    /\ Appended.entry_time = open_trade.entry_time
    /\ balance' = balance + ((px - open_trade.entry) \div PIP_VALUE)
    /\ open_trade' = None

\* C3: on a bar entered with an open trade whose low is <= the stop price and
\* whose high is >= the target price, a Loss at the stop price is recorded.
C3_StopPrecedence ==
    [][(BarStep /\ open_trade # None
            /\ StopTouched(open_trade, row') /\ TargetTouched(open_trade, row'))
        => (HasExit /\ Appended.result = "Loss"
                /\ Appended.exit = open_trade.sl)]_vars

\* C4: on every bar entered with an open trade: low <= stop closes it on that
\* bar as a Loss at the stop price (ledger, balance, open_trade updated);
\* otherwise high >= target closes it as a Win at the target price; otherwise
\* it stays open and the ledger is unchanged.  Whatever the stop price is.
C4_ExitComplete ==
    [][(BarStep /\ open_trade # None)
        => IF StopTouched(open_trade, row')
           THEN ClosedAt(open_trade.sl, "Loss")
           ELSE IF TargetTouched(open_trade, row')
           THEN ClosedAt(open_trade.tp, "Win")
           ELSE open_trade' = open_trade /\ positions' = positions
                    /\ balance' = balance]_vars

\* C5 as stated: every Buy signal opens a trade, i.e. the number of trades
\* opened equals the number of Buy signals on the bars processed so far.
C5_EveryBuyOpens ==
    InBacktest =>
        opened = BuyCount(Signal, IF pc = "backtest" THEN i ELSE len_df)

\* C5: a trade is opened exactly on the bars that carry Buy and are entered
\* with no open trade; a Buy on a bar entered with a trade open opens nothing
\* and the bar only runs the exit checks on that trade; the number of trades
\* opened never exceeds the number of Buy signals.
C5_BuyOpensOnlyWhenFlat ==
    [][BarStep =>
        /\ (opened' = opened + 1) <=> (row'.Signal = "Buy" /\ open_trade = None)
        /\ opened' \in {opened, opened + 1}
        /\ (row'.Signal = "Buy" /\ open_trade = None) =>
               (open_trade' # None /\ open_trade'.entry_time = row'.name)
        /\ (row'.Signal = "Buy" /\ open_trade # None) =>
               open_trade' \in {open_trade, None}
        /\ opened' <= BuyCount(Signal, i')]_vars

C5_Witness ==
    /\ pc = "backtest"
    /\ row # None
    /\ row.Signal = "Buy"
    /\ open_trade # None
    /\ open_trade.entry_time < row.name
    /\ opened < BuyCount(Signal, i)

\* C6: the max drawdown of the metrics is the largest deficit
\* INITIAL_BALANCE - balance over all the points of equity: the seed and the
\* balance after every bar, the last bar included.
C6_DrawdownAllPoints ==
    (pc = "done" /\ metrics.names = "Metrics") =>
        metrics.max_drawdown =
            MaxOf([k \in 1 .. Len(equity) |-> INITIAL_BALANCE - equity[k]])

\* C7: equity holds the seed followed by one entry per bar processed, so
\* len(df) + 1 entries once the loop is over, whatever happened on the bars.
C7_EquityLength ==
    InBacktest =>
        /\ Len(equity) = (IF pc = "backtest" THEN i ELSE len_df) + 1
        /\ equity[1] = INITIAL_BALANCE

C7_Witness ==
    /\ pc = "done"
    /\ len_df > Window
    /\ positions # <<>>
    /\ Len(equity) = len_df + 1
    /\ \E k \in 1 .. len_df : equity[k + 1] = equity[k]
    /\ \E k \in 1 .. len_df : equity[k + 1] # equity[k]

\* C8: a bar changes the balance only together with an exit; on a bar with
\* no open trade, on the bar that opens a trade and on a bar that touches
\* neither stop nor target, balance and ledger are unchanged; a Win exit does
\* not decrease the balance and a Loss exit does not increase it.
C8_BalanceFrame ==
    [][BarStep =>
        /\ (balance' # balance) => HasExit
        /\ ~HasExit => (positions' = positions /\ balance' = balance)
        /\ open_trade = None => (positions' = positions /\ balance' = balance)
        /\ (open_trade # None /\ ~StopTouched(open_trade, row')
                /\ ~TargetTouched(open_trade, row'))
               => (positions' = positions /\ balance' = balance)
        /\ (HasExit /\ Appended.result = "Win") => balance' >= balance
        /\ (HasExit /\ Appended.result = "Loss") => balance' <= balance]_vars

C8_Witness ==
    /\ pc = "backtest"
    /\ \E k \in 1 .. Len(positions) : positions[k].result = "Win"
    /\ \E k \in 1 .. Len(positions) : positions[k].result = "Loss"
    /\ equity[Len(equity)] = balance
    /\ balance # INITIAL_BALANCE

\* C9: every ledger entry has exit_time strictly later than entry_time.
C9_NoSameBarExit ==
    \A k \in 1 .. Len(positions) :
        positions[k].exit_time > positions[k].entry_time

\* the opening bar touched the stop and the trade is still open after it
C9_Witness ==
    /\ pc = "backtest"
    /\ open_trade # None
    /\ row # None
    /\ row.name = open_trade.entry_time
    /\ StopTouched(open_trade, row)
    /\ open_trade.sl # 0

\* C10: a bar carrying Sell that is entered with a trade open and touches
\* neither stop nor target leaves the trade open and the ledger unchanged;
\* every ledger entry exits at its trade's stop price as a Loss or at its
\* target price as a Win.
C10_SellDoesNotClose ==
    [][BarStep =>
        /\ (row'.Signal = "Sell" /\ open_trade # None
                /\ ~StopTouched(open_trade, row')
                /\ ~TargetTouched(open_trade, row'))
               => (open_trade' = open_trade /\ positions' = positions)
        /\ \A k \in 1 .. Len(positions') :
               \/ /\ positions'[k].result = "Loss"
                  /\ positions'[k].exit =
                         positions'[k].entry - STOP_LOSS_PIPS * PIP_VALUE
               \/ /\ positions'[k].result = "Win"
                  /\ positions'[k].exit =
                         positions'[k].entry + TAKE_PROFIT_PIPS * PIP_VALUE]_vars

C10_Witness ==
    /\ pc = "backtest"
    /\ row # None
    /\ row.Signal = "Sell"
    /\ open_trade # None
    /\ open_trade.entry_time < row.name
    /\ ~StopTouched(open_trade, row)
    /\ ~TargetTouched(open_trade, row)

\* the run is past line 107
AfterLoop == pc \in {"metrics", "done"}

\* the metrics of lines 112-120 were computed
MetricsComputed == pc = "done" /\ metrics.names = "Metrics"

\* C11: when the metrics are computed, max_drawdown >= 0, and it is 0 when
\* no point of the run has the balance below the initial balance.
C11_DrawdownNonNegative ==
    MetricsComputed =>
        /\ metrics.max_drawdown >= 0
        /\ (\A k \in 1 .. Len(equity) : equity[k] >= INITIAL_BALANCE)
               => metrics.max_drawdown = 0

C11_Witness ==
    /\ MetricsComputed
    /\ \A k \in 1 .. Len(equity) : equity[k] >= INITIAL_BALANCE
    /\ balance > INITIAL_BALANCE
    /\ metrics.max_drawdown = 0

\* C12: a run that closes no trade ends with the single note as its metrics
\* and nothing else computed, also when a trade was opened and never closed
\* and when the input is shorter than the window; and such a run is never
\* stuck before its end.
C12_NoTradesNote ==
    positions = <<>> =>
        /\ pc = "done" => metrics = [names |-> "Note"]
        /\ pc # "done" => ENABLED Next

C12_Witness ==
    /\ pc = "done"
    /\ positions = <<>>
    /\ opened = 1
    /\ open_trade # None
    /\ metrics = [names |-> "Note"]

\* C14: the signal loop evaluates row Window - 1, the first row with bands:
\* a close below the lower band on that row, where the generator is still
\* flat, carries Buy.
C14_BuyAtFirstBandRow ==
    (InBacktest /\ len_df >= Window /\ CloseBelowLower(Close, Window - 1))
        => Signal[Window - 1] = "Buy"

\* C15: the value of df['Equity'] at row t is the balance after row t has
\* been processed, i.e. the entry that line 105 appended for row t.
C15_EquityAfterBar ==
    AfterLoop =>
        \A t \in 0 .. len_df - 1 : Equity[t + 1] = equity[t + 2]

\* C16: no row before Window - 1 carries a signal, and an input shorter than
\* the window gives no signal at all, an empty ledger and an equity constantly
\* at the initial balance.
C16_NoSignalInWarmUp ==
    /\ \A t \in DOMAIN Signal : t < Window - 1 => Signal[t] = "None"
    /\ len_df < Window =>
           /\ \A t \in DOMAIN Signal : Signal[t] = "None"
           /\ positions = <<>>
           /\ \A k \in 1 .. Len(equity) : equity[k] = INITIAL_BALANCE
           /\ AfterLoop =>
                  \A k \in 1 .. Len(Equity) : Equity[k] = INITIAL_BALANCE

C16_Witness ==
    /\ pc = "backtest"
    /\ len_df > Window
    /\ i = len_df
    /\ Signal[Window] = "Buy"
    /\ \A t \in 0 .. Window - 2 : Signal[t] = "None"

\* the first n rows of a column
Prefix(C, n) == [t \in 0 .. n - 1 |-> C[t]]

RECURSIVE SignalLoop(_, _, _, _)
\* the loop of lines 49-59 from row t on, as a function of the close column
SignalLoop(C, t, pos, Sig) ==
    IF t >= Cardinality(DOMAIN C) THEN Sig
    ELSE LET sig == NextSignal(C, t, pos)
         IN  SignalLoop(C, t + 1, NextPosition(sig, pos),
                        IF sig = "None" THEN Sig ELSE [Sig EXCEPT ![t] = sig])

\* the signal column that lines 46-59 compute for close column C
SignalsOf(C) == SignalLoop(C, SignalStart, FALSE, [t \in DOMAIN C |-> "None"])

\* C17: the run on rows 0 .. t is a function of those rows alone.  The signal
\* of row t is the one computed from the input cut after row t, and open
\* trade, balance, ledger and equity after row t are determined by their
\* values after row t - 1 and by row t with that signal; so two inputs that
\* agree up to row t, or two runs on one input, agree on all of them.
C17_NoLookAhead ==
    [][BarStep =>
        LET sigs == SignalsOf(Prefix(Close, i + 1))
            r == [name |-> i, Close |-> Close[i], High |-> row'.High,
                  Low |-> row'.Low, Signal |-> sigs[i]]
            st == StepBar(open_trade, balance, positions, r)
        IN  /\ row' = r
            /\ open_trade' = st.open_trade
            /\ balance' = st.balance
            /\ positions' = st.positions
            /\ equity' = Append(equity, st.balance)]_vars

\* a trade was closed and rows that differ from the last one are still ahead
C17_Witness ==
    /\ pc = "backtest"
    /\ positions # <<>>
    /\ i < len_df
    /\ Close[i] # Close[i - 1]
    /\ Signal[i] # "None"

C19_LedgerOrdered ==
    [][BarStep =>
        /\ positions' = positions \/ (HasExit /\ positions' = Append(positions, Appended))
        /\ \A k \in 1 .. Len(positions') :
               /\ positions'[k].entry_time < positions'[k].exit_time
               /\ Signal[positions'[k].entry_time] = "Buy"
               /\ k < Len(positions') =>
                      positions'[k].exit_time < positions'[k + 1].entry_time]_vars

C19_Witness ==
    /\ pc = "backtest"
    /\ Len(positions) >= 2
    /\ positions[1].exit_time < positions[2].entry_time

\* C13: a run configured with a negative initial balance is rejected before
\* anything is computed: no signal, no trade, no ledger entry, no equity point
\* beyond the seed and no metrics exist for it.
C13_InvalidConfigRejected ==
    initial_balance < 0 =>
        /\ \A t \in DOMAIN Signal : Signal[t] = "None"
        /\ opened = 0
        /\ positions = <<>>
        /\ Len(equity) <= 1
        /\ Equity = None
        /\ metrics = None

\* C20: in the frame returned by zero_lag_trend_level no row has trendUp and
\* trendDn both true, the first row has both false, every later row has
\* trendUp exactly when zlema rose and trendDn exactly when it fell against
\* the row before; the caller's frame is as it was before the call.
C20_TrendFlags ==
    [][(zl_pc = "call" /\ zl_pc' = "returned") =>
        /\ zl_df' = zl_df
        /\ zl_ret'.close = zl_df.close
        /\ \A t \in 1 .. Len(zl_ret'.zlema) :
               /\ ~(zl_ret'.trendUp[t] /\ zl_ret'.trendDn[t])
               /\ t = 1 => (~zl_ret'.trendUp[t] /\ ~zl_ret'.trendDn[t])
               /\ t > 1 =>
                      /\ zl_ret'.trendUp[t] <=>
                             zl_ret'.zlema[t] > zl_ret'.zlema[t - 1]
                      /\ zl_ret'.trendDn[t] <=>
                             zl_ret'.zlema[t] < zl_ret'.zlema[t - 1]]_vars

C20_Witness ==
    /\ zl_pc = "returned"
    /\ Len(zl_ret.zlema) = MaxZLLen
    /\ \E t \in 1 .. Len(zl_ret.zlema) : zl_ret.trendUp[t]
    /\ \E t \in 1 .. Len(zl_ret.zlema) : zl_ret.trendDn[t]
    /\ ~zl_ret.trendUp[1] /\ ~zl_ret.trendDn[1]
    /\ DOMAIN zl_df = {"close"}

====
